---- MODULE Spec2Model ----
(***************************************************************************)
(* Profile bootstrap flow of the Home screen (src/app/(tabs)/index.tsx,   *)
(* the effect at lines 130-320).  One run of initializeProfile is a       *)
(* process whose steps are the awaited calls of the function; a step      *)
(* covers the awaited call and the synchronous code up to the next await. *)
(* Times are in milliseconds.                                             *)
(***************************************************************************)
EXTENDS Integers, Sequences, FiniteSets, TLC

\* ---------------------------------------------------------------- bounds
MaxRuns == 2          \* invocations of initializeProfile on record at one time
MaxMounts == 2        \* instances of the Home screen that are mounted
MaxRequests == 3      \* ids requested from one ActivityDetailScreen
MaxCalls == 2         \* calls of checkFirstLaunch, and of markWelcomeAsViewed, in flight
SlowRefresh == 9000   \* latency of a slow refreshConnectionStatus call

\* ------------------------------------------------------ program constants
MaxWait == 10000      \* maxWait, line 187
CheckInterval == 1000 \* checkInterval, line 188
SettleDelay == 100    \* setTimeout(resolve, 100), lines 195 and 214

\* ------------------------------------------------------------ vocabulary
NULL == "<null>"                 \* getItemAsync resolving null (key absent)
Loading == "Loading..."          \* the placeholder of line 183
Blank == " "                     \* a whitespace-only string
KeyInit == "profile_initialized"
KeyOrigin == "portal_seed_origin"
KeyUsername == "portal_username"
Keys == {KeyInit, KeyOrigin, KeyUsername}

\* what onboarding may have left in portal_seed_origin / portal_username
Origins == {NULL, "generated", "imported", "restored"}
StoredNames == {NULL, "", Blank, Loading, "alice"}
\* generateRandomGamertag(), line 289
Tags == {"Tag1", "Tag2"}
\* refreshConnectionStatus latencies and getConnectionSummary().connectedCount
Latencies == {0, SlowRefresh}
ConnectedCounts == {0, 1}

VARIABLES
    store,           \* SecureStore: key -> value or NULL
    username,        \* LocalProfileState.username (useUserProfile)
    mounted,         \* a Home instance is mounted
    gen,             \* number of the Home instance mounted last
    isInitializing,  \* the latch of the mounted instance (useState, line 127)
    runs,            \* the invocations that got past the latch and are in flight,
                     \* and those that ended since the last one started
    lastTrigger,      \* how the last firing of the effect ended
    reset,           \* Settings: the handler of 'Reset App' and what it acts on
    detail,          \* ActivityDetailScreen: its state and the fetches in flight
    gate,            \* AuthenticatedAppContent: context values, route, pending effect
    welcome          \* Home: isFirstLaunch, the stored flag and the calls in flight

\* the state of the profile flow of the Home screen
home == <<store, username, mounted, gen, isInitializing, runs, lastTrigger>>

\* the state of the other screens and of the welcome card
screens == <<reset, detail, gate, welcome>>

vars == <<store, username, mounted, gen, isInitializing, runs, lastTrigger,
          reset, detail, gate, welcome>>

Ev(op, arg, res) == [op |-> op, arg |-> arg, res |-> res]

\* `!s.trim()` of lines 174 and 268 over the strings of the model
IsBlank(s) == s \in {"", Blank}

\* ------------------------------------------------- conditions of the code
\* line 133: the service is ready
ServiceReady(isInit, publicKey, portalApp) == isInit /\ publicKey # "" /\ portalApp

\* variant: the sync status is not consulted
AnyStatusIdle(syncStatus) == TRUE

\* line 138: only on first load
IsIdle(syncStatus) == syncStatus = "idle"

\* variant: the latch is never consulted
LatchIgnored(latch) == FALSE

\* line 143: the concurrency latch
LatchBlocks(latch) == latch

\* variant: the stored flag is never recognised
NeverInitialized(v) == FALSE

\* line 153: the idempotence guard
AlreadyInitialized(v) == v = "true"

\* variant: every recorded origin is treated as imported
AnyOriginImported(seedOrigin) == seedOrigin # NULL

\* line 166
IsImported(seedOrigin) == seedOrigin = "imported"

\* variant: a stored username is never adopted
NeverUsable(v) == FALSE

\* variant: the placeholder is taken for a stored username
UsableUnlessBlank(v) == v # NULL /\ ~IsBlank(v)

\* lines 172-176: a stored username that is adopted without a network fetch
UsableLocal(v) == v # NULL /\ ~IsBlank(v) /\ v # Loading

\* line 242: profileResult.found && profileResult.username
FetchHit(res) == res.found /\ res.username # ""

\* line 261: (await getItemAsync('portal_username')) || ''
OrEmpty(v) == IF v = NULL THEN "" ELSE v

\* variant: the dummy profile is created whatever the origin
AlwaysWantsDummyProfile(seedOrigin) == TRUE

\* line 277
WantsDummyProfile(seedOrigin) == seedOrigin \in {"generated", "imported"}

\* variant: the second read never stops the run
NeverRecentlyInitialized(v) == FALSE

\* line 282: the second read of profile_initialized
RecentlyInitialized(v) == v = "true"

\* variant: the loop test lets the deadline itself through
StillWaitingAtDeadline(elapsed) == elapsed <= MaxWait

\* line 202: while (Date.now() - startTime < maxWait)
StillWaiting(elapsed) == elapsed < MaxWait

\* lines 197 and 217
Connected(count) == count > 0

\* ------------------------------------------------------- collaborators
\* useUserProfile().setUsername: updates the observable state and persists it
SetUsernameStore(v) == [store EXCEPT ![KeyUsername] = v]

\* useUserProfile().fetchProfile: what a call may resolve to
FetchResults ==
    { [found |-> TRUE, username |-> "bob"],
      [found |-> TRUE, username |-> Blank],
      [found |-> TRUE, username |-> ""],
      [found |-> FALSE, username |-> ""] }

\* variant: the origin is left in the store
KeepOrigin(s) == s

\* SecureStore.deleteItemAsync('portal_seed_origin'), line 265
DeleteOrigin(s) == [s EXCEPT ![KeyOrigin] = NULL]

\* SecureStore.setItemAsync('profile_initialized', 'true'), line 310
MarkInitialized(s) == [s EXCEPT ![KeyInit] = "true"]

\* the argument of setUserProfile before the call is made
NoProfile == [nip05 |-> << >>, name |-> "", picture |-> "", displayName |-> ""]

\* variant: the profile is published without a name
NamelessProfile(tag) ==
    [nip05 |-> <<tag, "@getportal.cc">>, name |-> "", picture |-> "", displayName |-> ""]

\* lines 296-301: the record handed to setUserProfile
DummyProfile(tag) ==
    [nip05 |-> <<tag, "@getportal.cc">>, name |-> tag, picture |-> "", displayName |-> tag]

\* ------------------------------------------ the other screens, untouched
\* Settings before 'Reset App' is pressed
ResetAtRest ==
    [ pc |-> "idle", avatarUri |-> NULL, mnemonic |-> "stored", database |-> "open",
      onboarded |-> TRUE, errorAlert |-> FALSE, trace |-> << >> ]

\* ActivityDetailScreen as constructed (lines 40-43), before an id is requested
DetailAtRest ==
    [ id |-> "", activity |-> NULL, loading |-> TRUE, error |-> NULL,
      fetches |-> << >>, requests |-> 0, latest |-> "none" ]

\* AuthenticatedAppContent at its first render, both contexts loading
GateAtRest ==
    [ onboardingLoading |-> TRUE, mnemonicLoading |-> TRUE,
      isOnboardingComplete |-> FALSE, mnemonic |-> NULL,
      route |-> "/", effectPending |-> TRUE, lastCheck |-> "none" ]

\* the welcome card of Home as constructed (line 36), nothing stored yet
WelcomeAtRest ==
    [ isFirstLaunch |-> NULL, stored |-> NULL, checks |-> << >>, marks |-> << >>,
      marked |-> FALSE ]

ScreensAtRest ==
    /\ reset = ResetAtRest
    /\ detail = DetailAtRest
    /\ gate = GateAtRest
    /\ welcome = WelcomeAtRest

\* ------------------------------------------------------------------ Init
NewRun(m, flag) ==
    [ pc |-> "guard", mount |-> m, startFlag |-> flag, seedOrigin |-> NULL,
      currentUsername |-> "", tag |-> "", elapsed |-> 0, checks |-> 0,
      hasRelay |-> "unset", profile |-> NoProfile,
      outcome |-> "running",
      log |-> << >> ]

Init ==
    /\ \E o \in Origins, n \in StoredNames :
          /\ store = [k \in Keys |->
                         IF k = KeyOrigin THEN o ELSE IF k = KeyUsername THEN n ELSE NULL]
          /\ username = OrEmpty(n)
    /\ mounted = TRUE
    /\ gen = 1
    /\ isInitializing = FALSE
    /\ runs = << >>
    /\ lastTrigger = "none"
    /\ ScreensAtRest

RunIds == 1..Len(runs)

InFlight(run) == run.pc # "done"

\* ------------------------------------------------------ the Home screen
\* lines 68-73 and 127: unmounting drops the instance and its state
Unmount ==
    /\ mounted
    /\ mounted' = FALSE
    /\ isInitializing' = FALSE
    /\ UNCHANGED <<store, username, gen, runs, lastTrigger>>
    /\ UNCHANGED screens

\* line 127: a new instance starts with useState(false)
Mount ==
    /\ ~mounted
    /\ gen < MaxMounts
    /\ mounted' = TRUE
    /\ gen' = gen + 1
    /\ isInitializing' = FALSE
    /\ UNCHANGED <<store, username, runs, lastTrigger>>
    /\ UNCHANGED screens

\* lines 130-149 and 319-320: the effect fires with the values of one render
Trigger(isInit, publicKey, portalApp, syncStatus) ==
    /\ mounted
    /\ IF ~ServiceReady(isInit, publicKey, portalApp)
         THEN /\ lastTrigger' = "notReady"
              /\ UNCHANGED <<isInitializing, runs>>
         ELSE IF ~IsIdle(syncStatus)
         THEN /\ lastTrigger' = "notIdle"
              /\ UNCHANGED <<isInitializing, runs>>
         ELSE IF LatchBlocks(isInitializing)
         THEN /\ lastTrigger' = "latched"
              /\ UNCHANGED <<isInitializing, runs>>
         ELSE /\ Len(SelectSeq(runs, InFlight)) < MaxRuns
              /\ lastTrigger' = "started"
              /\ isInitializing' = TRUE
              /\ runs' = Append(SelectSeq(runs, InFlight), NewRun(gen, store[KeyInit]))
    /\ UNCHANGED <<store, username, mounted, gen>>
    /\ UNCHANGED screens

\* ------------------------------------------------------- steps of a run
\* setIsInitializing(false) of line 315; a no-op on an unmounted instance
Finally(r) ==
    isInitializing' = IF mounted /\ runs[r].mount = gen THEN FALSE ELSE isInitializing

Goto(r, pc, ev) ==
    runs' = [runs EXCEPT ![r] = [@ EXCEPT !.pc = pc, !.log = Append(@, ev)]]

End(r, outcome, ev) ==
    runs' = [runs EXCEPT ![r] =
                [@ EXCEPT !.pc = "done", !.outcome = outcome, !.log = Append(@, ev)]]

\* lines 311-316: catch, log, finally
Catch(r, ev) ==
    /\ End(r, "failed", ev)
    /\ Finally(r)

\* lines 152-155: the idempotence guard, outside the try block
ReturnAtGuard(r, ev) ==
    /\ End(r, "guard", ev)
    /\ UNCHANGED isInitializing

\* line 152 rejecting: the rejection leaves initializeProfile, outside the try block
RejectAtGuard(r, ev) ==
    /\ End(r, "rejected", ev)
    /\ UNCHANGED isInitializing

ReadInitFlag(r) ==
    /\ runs[r].pc = "guard"
    /\ \/ LET v == store[KeyInit] IN
            IF AlreadyInitialized(v)
              THEN ReturnAtGuard(r, Ev("getItem", KeyInit, v))
              ELSE /\ Goto(r, "getOrigin", Ev("getItem", KeyInit, v))
                   /\ UNCHANGED isInitializing
       \/ RejectAtGuard(r, Ev("getItem", KeyInit, "throw"))
    /\ UNCHANGED <<store, username, mounted, gen, lastTrigger>>
    /\ UNCHANGED screens

\* lines 161-166
ReadSeedOrigin(r) ==
    /\ runs[r].pc = "getOrigin"
    /\ \/ LET v == store[KeyOrigin] IN
            /\ runs' = [runs EXCEPT ![r] =
                          [@ EXCEPT !.seedOrigin = v,
                                    !.pc = IF IsImported(v) THEN "getLocal" ELSE "getStored",
                                    !.log = Append(@, Ev("getItem", KeyOrigin, v))]]
            /\ UNCHANGED isInitializing
       \/ Catch(r, Ev("getItem", KeyOrigin, "throw"))
    /\ UNCHANGED <<store, username, mounted, gen, lastTrigger>>
    /\ UNCHANGED screens

\* lines 170-180
ReadLocalUsername(r) ==
    /\ runs[r].pc = "getLocal"
    /\ \/ LET v == store[KeyUsername] IN
            /\ runs' = [runs EXCEPT ![r] =
                          [@ EXCEPT !.currentUsername = IF UsableLocal(v) THEN v ELSE "",
                                    !.pc = IF UsableLocal(v) THEN "delOrigin" ELSE "setLoading",
                                    !.log = Append(@, Ev("getItem", KeyUsername, v))]]
            /\ UNCHANGED isInitializing
       \/ Catch(r, Ev("getItem", KeyUsername, "throw"))
    /\ UNCHANGED <<store, username, mounted, gen, lastTrigger>>
    /\ UNCHANGED screens

\* line 183
SetLoading(r) ==
    /\ runs[r].pc = "setLoading"
    /\ \/ /\ Goto(r, "waitFirst", Ev("setUsername", Loading, "ok"))
          /\ username' = Loading
          /\ store' = SetUsernameStore(Loading)
          /\ UNCHANGED isInitializing
       \/ /\ Catch(r, Ev("setUsername", Loading, "throw"))
          /\ UNCHANGED <<store, username>>
    /\ UNCHANGED <<mounted, gen, lastTrigger>>
    /\ UNCHANGED screens

\* the log keeps one entry for a stretch of equal consecutive events
Logged(log, ev) == IF Len(log) > 0 /\ log[Len(log)] = ev THEN log ELSE Append(log, ev)

\* variant: the fetch is attempted only when a relay is connected
FetchOnlyIfConnected(hasRelay) == IF hasRelay = "yes" THEN "fetch" ELSE "clearLoading"

\* lines 228-239: the result of the wait is logged and the fetch attempted anyway
AfterWait(hasRelay) == "fetch"

\* one connectivity check: refresh, settle, read the summary (lines 194-200, 212-220)
Checked(r, count, elapsed) ==
    runs' = [runs EXCEPT ![r] =
                [@ EXCEPT !.pc = IF Connected(count) THEN AfterWait("yes") ELSE "waitLoop",
                          !.hasRelay = IF Connected(count) THEN "yes" ELSE @,
                          !.elapsed = elapsed, !.checks = @ + 1,
                          !.log = Logged(@, Ev("refreshConnectionStatus", "", "ok"))]]

\* lines 189-200: the immediate check of waitForRelayConnection
WaitFirstCheck(r) ==
    /\ runs[r].pc = "waitFirst"
    /\ \/ \E lat \in Latencies, count \in ConnectedCounts :
            /\ Checked(r, count, lat + SettleDelay)
            /\ UNCHANGED isInitializing
       \/ Catch(r, Ev("refreshConnectionStatus", "", "throw"))
    /\ UNCHANGED <<store, username, mounted, gen, lastTrigger>>
    /\ UNCHANGED screens

\* lines 202-225: the loop test and one iteration of the loop
WaitLoop(r) ==
    /\ runs[r].pc = "waitLoop"
    /\ IF StillWaiting(runs[r].elapsed)
         THEN \/ \E lat \in Latencies, count \in ConnectedCounts :
                   /\ Checked(r, count, runs[r].elapsed + CheckInterval + lat + SettleDelay)
                   /\ UNCHANGED isInitializing
              \/ Catch(r, Ev("refreshConnectionStatus", "", "throw"))
         ELSE /\ runs' = [runs EXCEPT ![r] =
                            [@ EXCEPT !.pc = AfterWait("no"), !.hasRelay = "no"]]
              /\ UNCHANGED isInitializing
    /\ UNCHANGED <<store, username, mounted, gen, lastTrigger>>
    /\ UNCHANGED screens

\* variant: the placeholder is not cleared after a miss
NoClearAfterFetch(res) == "delOrigin"

\* variant: a miss is answered by fetching again
RefetchAfterMiss(res) == IF FetchHit(res) THEN "delOrigin" ELSE "fetch"

\* where a fetch that resolved goes on (lines 242-249)
AfterFetch(res) == IF FetchHit(res) THEN "delOrigin" ELSE "clearLoading"

\* lines 238-251
FetchProfile(r) ==
    /\ runs[r].pc = "fetch"
    /\ \/ \E res \in FetchResults :
            runs' = [runs EXCEPT ![r] =
                       [@ EXCEPT !.currentUsername = IF FetchHit(res) THEN res.username ELSE @,
                                 !.pc = AfterFetch(res), !.elapsed = 0, !.checks = 0,
                                 !.log = Append(@, Ev("fetchProfile",
                                                      IF res.found THEN "found" ELSE "notFound",
                                                      res.username))]]
       \/ runs' = [runs EXCEPT ![r] =
                     [@ EXCEPT !.pc = "clearAfterError", !.elapsed = 0, !.checks = 0,
                               !.log = Append(@, Ev("fetchProfile", "", "throw"))]]
    /\ UNCHANGED <<store, username, mounted, gen, isInitializing, lastTrigger>>
    /\ UNCHANGED screens

\* line 248; a rejection is caught by the catch of line 250
ClearLoading(r) ==
    /\ runs[r].pc = "clearLoading"
    /\ \/ /\ Goto(r, "delOrigin", Ev("setUsername", "", "ok"))
          /\ username' = ""
          /\ store' = SetUsernameStore("")
       \/ /\ Goto(r, "clearAfterError", Ev("setUsername", "", "throw"))
          /\ UNCHANGED <<store, username>>
    /\ UNCHANGED <<mounted, gen, isInitializing, lastTrigger>>
    /\ UNCHANGED screens

\* line 253
ClearAfterError(r) ==
    /\ runs[r].pc = "clearAfterError"
    /\ \/ /\ Goto(r, "delOrigin", Ev("setUsername", "", "ok"))
          /\ username' = ""
          /\ store' = SetUsernameStore("")
          /\ UNCHANGED isInitializing
       \/ /\ Catch(r, Ev("setUsername", "", "throw"))
          /\ UNCHANGED <<store, username>>
    /\ UNCHANGED <<mounted, gen, lastTrigger>>
    /\ UNCHANGED screens

\* lines 256-262
ReadStoredUsername(r) ==
    /\ runs[r].pc = "getStored"
    /\ \/ LET v == store[KeyUsername] IN
            /\ runs' = [runs EXCEPT ![r] =
                          [@ EXCEPT !.currentUsername = OrEmpty(v),
                                    !.pc = "delOrigin",
                                    !.log = Append(@, Ev("getItem", KeyUsername, v))]]
            /\ UNCHANGED isInitializing
       \/ Catch(r, Ev("getItem", KeyUsername, "throw"))
    /\ UNCHANGED <<store, username, mounted, gen, lastTrigger>>
    /\ UNCHANGED screens

\* lines 268-307: what follows the deletion of the origin
AfterDelete(currentUsername, seedOrigin) ==
    IF IsBlank(currentUsername) /\ WantsDummyProfile(seedOrigin) THEN "recheck" ELSE "setInit"

\* lines 264-277
DeleteSeedOrigin(r) ==
    /\ runs[r].pc = "delOrigin"
    /\ \/ /\ Goto(r, AfterDelete(runs[r].currentUsername, runs[r].seedOrigin),
                  Ev("deleteItem", KeyOrigin, "ok"))
          /\ store' = DeleteOrigin(store)
          /\ UNCHANGED isInitializing
       \/ /\ Catch(r, Ev("deleteItem", KeyOrigin, "throw"))
          /\ UNCHANGED store
    /\ UNCHANGED <<username, mounted, gen, lastTrigger>>
    /\ UNCHANGED screens

\* lines 280-290: the second read of the flag, then generateRandomGamertag()
Recheck(r) ==
    /\ runs[r].pc = "recheck"
    /\ \/ LET v == store[KeyInit] IN
            IF RecentlyInitialized(v)
              THEN /\ End(r, "aborted", Ev("getItem", KeyInit, v))
                   /\ Finally(r)
              ELSE /\ \E t \in Tags :
                        runs' = [runs EXCEPT ![r] =
                                   [@ EXCEPT !.tag = t, !.pc = "setTag",
                                             !.log = Append(@, Ev("getItem", KeyInit, v))]]
                   /\ UNCHANGED isInitializing
       \/ Catch(r, Ev("getItem", KeyInit, "throw"))
    /\ UNCHANGED <<store, username, mounted, gen, lastTrigger>>
    /\ UNCHANGED screens

\* line 293
SetTag(r) ==
    /\ runs[r].pc = "setTag"
    /\ \/ /\ Goto(r, "publish", Ev("setUsername", runs[r].tag, "ok"))
          /\ username' = runs[r].tag
          /\ store' = SetUsernameStore(runs[r].tag)
          /\ UNCHANGED isInitializing
       \/ /\ Catch(r, Ev("setUsername", runs[r].tag, "throw"))
          /\ UNCHANGED <<store, username>>
    /\ UNCHANGED <<mounted, gen, lastTrigger>>
    /\ UNCHANGED screens

\* variant: a failed publish is swallowed and the run goes on to line 310
PublishSwallowed(r) ==
    /\ runs' = [runs EXCEPT ![r] =
                  [@ EXCEPT !.pc = "setInit", !.profile = DummyProfile(runs[r].tag),
                            !.log = Append(@, Ev("setUserProfile", runs[r].tag, "throw"))]]
    /\ UNCHANGED isInitializing

\* setUserProfile rejecting: nothing catches it before line 311
PublishFailed(r) ==
    /\ runs' = [runs EXCEPT ![r] =
                  [@ EXCEPT !.pc = "done", !.outcome = "failed",
                            !.profile = DummyProfile(runs[r].tag),
                            !.log = Append(@, Ev("setUserProfile", runs[r].tag, "throw"))]]
    /\ Finally(r)

\* lines 296-303
Publish(r) ==
    /\ runs[r].pc = "publish"
    /\ \/ /\ runs' = [runs EXCEPT ![r] =
                        [@ EXCEPT !.pc = "setInit", !.profile = DummyProfile(runs[r].tag),
                                  !.log = Append(@, Ev("setUserProfile", runs[r].tag, "ok"))]]
          /\ UNCHANGED isInitializing
       \/ PublishFailed(r)
    /\ UNCHANGED <<store, username, mounted, gen, lastTrigger>>
    /\ UNCHANGED screens

\* lines 309-316
SetInitialized(r) ==
    /\ runs[r].pc = "setInit"
    /\ \/ /\ End(r, "completed", Ev("setItem", KeyInit, "true"))
          /\ Finally(r)
          /\ store' = MarkInitialized(store)
       \/ /\ Catch(r, Ev("setItem", KeyInit, "throw"))
          /\ UNCHANGED store
    /\ UNCHANGED <<username, mounted, gen, lastTrigger>>
    /\ UNCHANGED screens

\* the Home screen is mounted once; runs go on after it is unmounted
Next ==
    \/ \E isInit \in BOOLEAN, publicKey \in {"", "npub1"}, portalApp \in BOOLEAN,
          syncStatus \in {"idle", "syncing"} :
          Trigger(isInit, publicKey, portalApp, syncStatus)
    \/ Unmount
    \/ \E r \in RunIds : ReadInitFlag(r)
    \/ \E r \in RunIds : ReadSeedOrigin(r)
    \/ \E r \in RunIds : ReadLocalUsername(r)
    \/ \E r \in RunIds : SetLoading(r)
    \/ \E r \in RunIds : WaitFirstCheck(r)
    \/ \E r \in RunIds : WaitLoop(r)
    \/ \E r \in RunIds : FetchProfile(r)
    \/ \E r \in RunIds : ClearLoading(r)
    \/ \E r \in RunIds : ClearAfterError(r)
    \/ \E r \in RunIds : ReadStoredUsername(r)
    \/ \E r \in RunIds : DeleteSeedOrigin(r)
    \/ \E r \in RunIds : Recheck(r)
    \/ \E r \in RunIds : SetTag(r)
    \/ \E r \in RunIds : Publish(r)
    \/ \E r \in RunIds : SetInitialized(r)

Spec == Init /\ [][Next]_vars

\* ------------------------------------------------- the screen is remounted
\* An installation whose seed was generated on the device, on which the Home
\* screen may be unmounted (lines 68-73) and mounted again (line 127) while
\* invocations are awaiting.  With this origin the import branch of lines
\* 166-254 is never entered, so its steps are not part of the next-state
\* relation.
\* the stored usernames of such an installation: none yet, or a chosen one
GeneratedNames == {NULL, "alice"}

InitGenerated ==
    /\ \E n \in GeneratedNames :
          /\ store = [k \in Keys |->
                         IF k = KeyOrigin THEN "generated"
                         ELSE IF k = KeyUsername THEN n ELSE NULL]
          /\ username = OrEmpty(n)
    /\ mounted = TRUE
    /\ gen = 1
    /\ isInitializing = FALSE
    /\ runs = << >>
    /\ lastTrigger = "none"
    /\ ScreensAtRest

NextRemount ==
    \/ \E isInit \in BOOLEAN, publicKey \in {"", "npub1"}, portalApp \in BOOLEAN,
          syncStatus \in {"idle", "syncing"} :
          Trigger(isInit, publicKey, portalApp, syncStatus)
    \/ Unmount
    \/ Mount
    \/ \E r \in RunIds : ReadInitFlag(r)
    \/ \E r \in RunIds : ReadSeedOrigin(r)
    \/ \E r \in RunIds : ReadStoredUsername(r)
    \/ \E r \in RunIds : DeleteSeedOrigin(r)
    \/ \E r \in RunIds : Recheck(r)
    \/ \E r \in RunIds : SetTag(r)
    \/ \E r \in RunIds : Publish(r)
    \/ \E r \in RunIds : SetInitialized(r)

SpecRemount == InitGenerated /\ [][NextRemount]_vars

\* ------------------------------------------------ no event from outside
\* The service stays ready and the sync status idle, the screen stays mounted:
\* the effect of lines 130-320 fires after the mount and then only when a value
\* of its dependency list (line 320) has changed, which leaves isInitializing.
\* The latch the effect saw when it last fired: false when it started a run,
\* true when it returned at line 145.
EffectPending ==
    \/ lastTrigger = "none"
    \/ lastTrigger = "started" /\ isInitializing
    \/ lastTrigger = "latched" /\ ~isInitializing

TriggerOnLatchChange ==
    /\ EffectPending
    /\ Trigger(TRUE, "npub1", TRUE, "idle")

NextQuiet ==
    \/ TriggerOnLatchChange
    \/ \E r \in RunIds : ReadInitFlag(r)
    \/ \E r \in RunIds : ReadSeedOrigin(r)
    \/ \E r \in RunIds : ReadLocalUsername(r)
    \/ \E r \in RunIds : SetLoading(r)
    \/ \E r \in RunIds : WaitFirstCheck(r)
    \/ \E r \in RunIds : WaitLoop(r)
    \/ \E r \in RunIds : FetchProfile(r)
    \/ \E r \in RunIds : ClearLoading(r)
    \/ \E r \in RunIds : ClearAfterError(r)
    \/ \E r \in RunIds : ReadStoredUsername(r)
    \/ \E r \in RunIds : DeleteSeedOrigin(r)
    \/ \E r \in RunIds : Recheck(r)
    \/ \E r \in RunIds : SetTag(r)
    \/ \E r \in RunIds : Publish(r)
    \/ \E r \in RunIds : SetInitialized(r)

SpecQuiet == Init /\ [][NextQuiet]_vars

\* ------------------------------------------------ Settings: 'Reset App'
\* the profile flow of Home at rest, with the stored username n
HomeAtRest(n) ==
    /\ store = [k \in Keys |-> IF k = KeyUsername THEN n ELSE NULL]
    /\ username = OrEmpty(n)
    /\ mounted = TRUE
    /\ gen = 1
    /\ isInitializing = FALSE
    /\ runs = << >>
    /\ lastTrigger = "none"

AvatarUris == {NULL, "file:avatar.png", "file:photo.jpg"}

InitSettings ==
    /\ \E n \in StoredNames : HomeAtRest(n)
    /\ \E a \in AvatarUris : reset = [ResetAtRest EXCEPT !.avatarUri = a]
    /\ detail = DetailAtRest
    /\ gate = GateAtRest
    /\ welcome = WelcomeAtRest

Traced(ev) == Append(reset.trace, ev)

\* lines 149-152: the catch of the handler
CatchReset(ev) ==
    reset' = [reset EXCEPT !.pc = "failed", !.errorAlert = TRUE, !.trace = Traced(ev)]

\* lines 123-127: the confirmation is shown
PressReset ==
    /\ reset.pc = "idle"
    /\ reset' = [reset EXCEPT !.pc = "alert"]
    /\ UNCHANGED <<home, detail, gate, welcome>>

\* lines 128-131
CancelReset ==
    /\ reset.pc = "alert"
    /\ reset' = [reset EXCEPT !.pc = "cancelled"]
    /\ UNCHANGED <<home, detail, gate, welcome>>

\* lines 132-135: 'Clear Data' starts the handler
ConfirmReset ==
    /\ reset.pc = "alert"
    /\ reset' = [reset EXCEPT !.pc = "setUsername"]
    /\ UNCHANGED <<home, detail, gate, welcome>>

\* line 138
ClearUsername ==
    /\ reset.pc = "setUsername"
    /\ \/ /\ reset' = [reset EXCEPT !.pc = "setAvatarUri", !.trace = Traced("setUsername")]
          /\ username' = ""
          /\ store' = SetUsernameStore("")
       \/ /\ CatchReset("setUsername.throw")
          /\ UNCHANGED <<store, username>>
    /\ UNCHANGED <<mounted, gen, isInitializing, runs, lastTrigger, detail, gate, welcome>>

\* line 139
ClearAvatar ==
    /\ reset.pc = "setAvatarUri"
    /\ \/ reset' = [reset EXCEPT !.pc = "deleteMnemonic", !.avatarUri = NULL,
                                 !.trace = Traced("setAvatarUri")]
       \/ CatchReset("setAvatarUri.throw")
    /\ UNCHANGED <<home, detail, gate, welcome>>

\* line 142: deleteMnemonic() is called and its result is dropped.  The call
\* either has deleted the mnemonic when it returns, or throws, or returns a
\* promise that settles later.
CallDeleteMnemonic ==
    /\ reset.pc = "deleteMnemonic"
    /\ \/ reset' = [reset EXCEPT !.pc = "resetDatabase", !.mnemonic = "deleted",
                                 !.trace = Traced("deleteMnemonic") \o <<"deleteMnemonic.done">>]
       \/ CatchReset("deleteMnemonic.throw")
       \/ reset' = [reset EXCEPT !.pc = "resetDatabase", !.mnemonic = "deleting",
                                 !.trace = Traced("deleteMnemonic")]
    /\ UNCHANGED <<home, detail, gate, welcome>>

\* the promise of deleteMnemonic settles; nothing awaits it
MnemonicSettles ==
    /\ reset.mnemonic = "deleting"
    /\ \/ reset' = [reset EXCEPT !.mnemonic = "deleted", !.trace = Traced("deleteMnemonic.done")]
       \/ reset' = [reset EXCEPT !.mnemonic = "stored", !.trace = Traced("deleteMnemonic.throw")]
    /\ UNCHANGED <<home, detail, gate, welcome>>

\* line 145: resetDatabase() is called
BeginResetDatabase ==
    /\ reset.pc = "resetDatabase"
    /\ reset' = [reset EXCEPT !.pc = "awaitDatabase", !.database = "resetting",
                              !.trace = Traced("resetDatabase")]
    /\ UNCHANGED <<home, detail, gate, welcome>>

\* line 145: the await of resetDatabase() returns or throws
EndResetDatabase ==
    /\ reset.pc = "awaitDatabase"
    /\ \/ reset' = [reset EXCEPT !.pc = "resetOnboarding", !.database = "empty",
                                 !.trace = Traced("resetDatabase.done")]
       \/ CatchReset("resetDatabase.throw")
    /\ UNCHANGED <<home, detail, gate, welcome>>

\* line 148
ResetOnboarding ==
    /\ reset.pc = "resetOnboarding"
    /\ \/ reset' = [reset EXCEPT !.pc = "done", !.onboarded = FALSE,
                                 !.trace = Traced("resetOnboarding")]
       \/ CatchReset("resetOnboarding.throw")
    /\ UNCHANGED <<home, detail, gate, welcome>>

NextSettings ==
    \/ PressReset
    \/ CancelReset
    \/ ConfirmReset
    \/ ClearUsername
    \/ ClearAvatar
    \/ CallDeleteMnemonic
    \/ MnemonicSettles
    \/ BeginResetDatabase
    \/ EndResetDatabase
    \/ ResetOnboarding

SpecSettings == InitSettings /\ [][NextSettings]_vars

\* ------------------------------------------------- ActivityDetailScreen
ActivityIds == {"a1", "a2"}

NotFound == "Activity not found"
LoadFailed == "Failed to load activity"

InitDetail ==
    /\ HomeAtRest(NULL)
    /\ reset = ResetAtRest
    /\ detail = DetailAtRest
    /\ gate = GateAtRest
    /\ welcome = WelcomeAtRest

\* lines 59-82: the route parameter changes and the effect fires; with an id it
\* calls setLoading(true) and dbService.getActivity(id).  A record is stood for
\* by its id.
RequestActivity(id) ==
    /\ id # detail.id
    /\ detail.requests < MaxRequests
    /\ detail' =
          IF id # ""
            THEN [detail EXCEPT !.id = id, !.loading = TRUE,
                                !.requests = @ + 1, !.latest = "pending",
                                !.fetches = Append(@, [id |-> id, n |-> detail.requests + 1])]
            ELSE [detail EXCEPT !.id = id, !.requests = @ + 1, !.latest = "none"]
    /\ UNCHANGED <<home, reset, gate, welcome>>

Without(seq, k) == [i \in 1..(Len(seq) - 1) |-> IF i < k THEN seq[i] ELSE seq[i + 1]]

\* the state after the await of line 64 has settled (lines 66-76)
Settled(f, outcome) ==
    [detail EXCEPT
        !.activity = IF outcome = "record" THEN f.id ELSE @,
        !.error = IF outcome = "missing" THEN NotFound
                  ELSE IF outcome = "throw" THEN LoadFailed ELSE @,
        !.loading = FALSE,
        !.latest = IF f.n = detail.requests THEN outcome ELSE @]

\* a call of getActivity settles, in any order with the others
ResolveFetch(k) ==
    /\ \E outcome \in {"record", "missing", "throw"} :
          detail' = [Settled(detail.fetches[k], outcome) EXCEPT
                        !.fetches = Without(detail.fetches, k)]
    /\ UNCHANGED <<home, reset, gate, welcome>>

NextDetail ==
    \/ \E id \in ActivityIds \cup {""} : RequestActivity(id)
    \/ \E k \in 1..Len(detail.fetches) : ResolveFetch(k)

SpecDetail == InitDetail /\ [][NextDetail]_vars

\* ---------------------------------------------- AuthenticatedAppContent
Mnemonics == {NULL, "", "seed words"}
Routes == {"/", "/settings", "/onboarding"}

\* line 172
StillLoading(onboardingLoading, mnemonicLoading) == onboardingLoading \/ mnemonicLoading

\* variant: a missing mnemonic does not redirect
RedirectUnlessOnboarded(isOnboardingComplete, mnemonic) == ~isOnboardingComplete

\* lines 177 and 183: `!isOnboardingComplete`, `!mnemonic`
ShouldRedirect(isOnboardingComplete, mnemonic) ==
    ~isOnboardingComplete \/ mnemonic \in {NULL, ""}

InitGate ==
    /\ HomeAtRest(NULL)
    /\ reset = ResetAtRest
    /\ detail = DetailAtRest
    /\ gate = GateAtRest
    /\ welcome = WelcomeAtRest

\* the values of useOnboarding() and useMnemonic() change (lines 166-167): the
\* next render has new dependencies (line 190)
ContextChange(onboardingLoading, mnemonicLoading, isOnboardingComplete, mnemonic) ==
    /\ <<onboardingLoading, mnemonicLoading, isOnboardingComplete, mnemonic>> #
          <<gate.onboardingLoading, gate.mnemonicLoading,
            gate.isOnboardingComplete, gate.mnemonic>>
    /\ gate' = [gate EXCEPT !.onboardingLoading = onboardingLoading,
                            !.mnemonicLoading = mnemonicLoading,
                            !.isOnboardingComplete = isOnboardingComplete,
                            !.mnemonic = mnemonic,
                            !.effectPending = TRUE]
    /\ UNCHANGED <<home, reset, detail, welcome>>

\* the user, or another screen, navigates
Navigate(route) ==
    /\ route # gate.route
    /\ gate' = [gate EXCEPT !.route = route]
    /\ UNCHANGED <<home, reset, detail, welcome>>

\* lines 169-189: the effect runs checkAuthStatus with the values of the render
CheckAuthStatus ==
    /\ gate.effectPending
    /\ gate' =
          IF StillLoading(gate.onboardingLoading, gate.mnemonicLoading)
            THEN [gate EXCEPT !.effectPending = FALSE, !.lastCheck = "waiting"]
          ELSE IF ShouldRedirect(gate.isOnboardingComplete, gate.mnemonic)
            THEN [gate EXCEPT !.effectPending = FALSE, !.lastCheck = "redirect",
                              !.route = "/onboarding"]
            ELSE [gate EXCEPT !.effectPending = FALSE, !.lastCheck = "stay"]
    /\ UNCHANGED <<home, reset, detail, welcome>>

NextGate ==
    \/ \E ol \in BOOLEAN, ml \in BOOLEAN, c \in BOOLEAN, m \in Mnemonics :
          ContextChange(ol, ml, c, m)
    \/ \E route \in Routes : Navigate(route)
    \/ CheckAuthStatus

SpecGate == InitGate /\ [][NextGate]_vars

\* ------------------------------------------------ Home: the welcome card
InitWelcome ==
    /\ HomeAtRest(NULL)
    /\ reset = ResetAtRest
    /\ detail = DetailAtRest
    /\ gate = GateAtRest
    /\ welcome = WelcomeAtRest

\* line 116: `firstLaunchCompleted !== 'true'`
FirstLaunch(firstLaunchCompleted) == IF firstLaunchCompleted # "true" THEN "true" ELSE "false"

\* setIsFirstLaunch: a no-op once the instance is unmounted
SetIsFirstLaunch(w, v) == IF mounted THEN [w EXCEPT !.isFirstLaunch = v] ELSE w

\* lines 107-124: nostrService changes (or the screen has just mounted) and the
\* effect calls checkFirstLaunch, which goes on if isMounted.current (line 113)
StartCheck ==
    /\ mounted
    /\ Len(welcome.checks) < MaxCalls
    /\ welcome' = [welcome EXCEPT !.checks = Append(@, [pc |-> "read", value |-> NULL])]
    /\ UNCHANGED <<home, reset, detail, gate>>

\* line 115: SecureStore reads the key, or the call rejects (line 118)
CheckReads(k) ==
    /\ welcome.checks[k].pc = "read"
    /\ \/ welcome' = [welcome EXCEPT !.checks[k] = [pc |-> "resume", value |-> welcome.stored]]
       \/ welcome' = [welcome EXCEPT !.checks = Without(@, k)]
    /\ UNCHANGED <<home, reset, detail, gate>>

\* lines 115-116: the await returns and setIsFirstLaunch is called
CheckResumes(k) ==
    /\ welcome.checks[k].pc = "resume"
    /\ welcome' = [SetIsFirstLaunch(welcome, FirstLaunch(welcome.checks[k].value))
                      EXCEPT !.checks = Without(@, k)]
    /\ UNCHANGED <<home, reset, detail, gate>>

\* the welcome card is dismissed (line 528), or lines 388-390 of handleQrScan:
\* with isFirstLaunch true markWelcomeAsViewed is called and passes line 59
StartMark ==
    /\ mounted
    /\ welcome.isFirstLaunch = "true"
    /\ Len(welcome.marks) < MaxCalls
    /\ welcome' = [welcome EXCEPT !.marks = Append(@, [pc |-> "write"])]
    /\ UNCHANGED <<home, reset, detail, gate>>

\* line 60: SecureStore writes the key, or the call rejects (line 63)
MarkWrites(k) ==
    /\ welcome.marks[k].pc = "write"
    /\ \/ welcome' = [welcome EXCEPT !.stored = "true", !.marks[k] = [pc |-> "resume"]]
       \/ welcome' = [welcome EXCEPT !.marks = Without(@, k)]
    /\ UNCHANGED <<home, reset, detail, gate>>

\* lines 60-61: the await returns, setIsFirstLaunch(false), the call completes
MarkResumes(k) ==
    /\ welcome.marks[k].pc = "resume"
    /\ welcome' = [SetIsFirstLaunch(welcome, "false")
                      EXCEPT !.marks = Without(@, k), !.marked = TRUE]
    /\ UNCHANGED <<home, reset, detail, gate>>

NextWelcome ==
    \/ StartCheck
    \/ \E k \in 1..Len(welcome.checks) : CheckReads(k)
    \/ \E k \in 1..Len(welcome.checks) : CheckResumes(k)
    \/ StartMark
    \/ \E k \in 1..Len(welcome.marks) : MarkWrites(k)
    \/ \E k \in 1..Len(welcome.marks) : MarkResumes(k)
    \/ Unmount

SpecWelcome == InitWelcome /\ [][NextWelcome]_vars

\* ---------------------------------------------------------------- claims
Events(run) == { run.log[i] : i \in 1..Len(run.log) }
Calls(run, op) == { i \in 1..Len(run.log) : run.log[i].op = op }
WriteOps == {"setItem", "deleteItem", "setUsername"}
NetworkOps == {"refreshConnectionStatus", "fetchProfile", "setUserProfile"}
NoWrites(run) == \A e \in Events(run) : e.op \notin WriteOps
NoNetwork(run) == \A e \in Events(run) : e.op \notin NetworkOps
Ended(run) == run.pc = "done"

\* C1: a run triggered while profile_initialized holds 'true' makes no write or
\* delete on SecureStore, no setUsername and no network call.
C1_Idempotent ==
    \A r \in RunIds :
        runs[r].startFlag = "true" => NoWrites(runs[r]) /\ NoNetwork(runs[r])

C1_Witness ==
    \E r \in RunIds :
        /\ runs[r].startFlag = "true"
        /\ Ended(runs[r])
        /\ Ev("getItem", KeyInit, "true") \in Events(runs[r])

\* C2: while a run is in flight on the mounted Home screen no second run gets
\* past the latch check; further firings of the effect return at the latch.
C2_OneRunPerScreen ==
    /\ Cardinality({ r \in RunIds : InFlight(runs[r]) /\ runs[r].mount = gen }) <= 1
    /\ (\E r \in RunIds : InFlight(runs[r]) /\ runs[r].mount = gen /\ mounted)
          => isInitializing

C2_Witness ==
    /\ lastTrigger = "latched"
    /\ \E r \in RunIds : InFlight(runs[r]) /\ runs[r].mount = gen /\ runs[r].pc # "guard"

\* C3: a run that was started with the flag unset and ended by a throw leaves
\* profile_initialized unset and the latch of its screen false.
C3_LatchClearedAfterThrow ==
    \A r \in RunIds :
        ( /\ Ended(runs[r])
          /\ runs[r].outcome \in {"failed", "rejected"}
          /\ runs[r].startFlag # "true"
          /\ mounted /\ runs[r].mount = gen )
        => store[KeyInit] # "true" /\ isInitializing = FALSE

PublishThrew(run) == \E e \in Events(run) : e.op = "setUserProfile" /\ e.res = "throw"

Deleted(run) == Ev("deleteItem", KeyOrigin, "ok") \in Events(run)

FetchedName(run) ==
    { e.res : e \in { x \in Events(run) : x.op = "fetchProfile" /\ x.arg = "found" } }
StoredNameRead(run) ==
    { e.res : e \in { x \in Events(run) : x.op = "getItem" /\ x.arg = KeyUsername } }

Preserved(run) ==
    /\ \E v \in StoredNameRead(run) : ~IsBlank(v) /\ v # NULL /\ username = v
    /\ Calls(run, "setUsername") = {}
Adopted(run) ==
    \E u \in FetchedName(run) : ~IsBlank(u) /\ username = u
Generated(run) ==
    /\ run.tag \in Tags /\ username = run.tag
    /\ Ev("setUserProfile", run.tag, "ok") \in Events(run)

\* C6: after a run for a generated or imported identity has reached its end
\* without an exception, profile_initialized is 'true', portal_seed_origin is
\* absent and exactly one of: stored username preserved, network username
\* adopted, generated username set and published.
C6_Postcondition ==
    \A r \in RunIds :
        runs[r].outcome = "completed" /\ runs[r].seedOrigin \in {"generated", "imported"}
        => /\ store[KeyInit] = "true"
           /\ store[KeyOrigin] = NULL
           /\ Cardinality({ c \in {"a", "b", "c"} :
                              \/ c = "a" /\ Preserved(runs[r])
                              \/ c = "b" /\ Adopted(runs[r])
                              \/ c = "c" /\ Generated(runs[r]) }) = 1

\* C7: after a run for an imported identity whose fetchProfile resolved
\* {found: true, username: u}, u a name, the local username is u and not the
\* placeholder.
C7_NetworkNameAdopted ==
    \A r \in RunIds :
        ( /\ runs[r].seedOrigin = "imported"
          /\ runs[r].outcome = "completed"
          /\ \E u \in FetchedName(runs[r]) : ~IsBlank(u) )
        => /\ username \in FetchedName(runs[r])
           /\ username # Loading

\* the run ended in the catch block because its last call threw
EndedByThrow(run) ==
    /\ run.outcome = "failed"
    /\ Len(run.log) > 0 /\ run.log[Len(run.log)].res = "throw"

Index(run, ev) == { i \in 1..Len(run.log) : run.log[i] = ev }
FetchMissed(run) ==
    \E e \in Events(run) :
        /\ e.op = "fetchProfile"
        /\ \/ e.res = "throw"
           \/ e.arg = "notFound"
           \/ e.arg = "found" /\ e.res = ""

\* C8: in a run for an imported identity with no usable stored username whose
\* fetchProfile resolved not-found, found without a username, or threw: once the
\* run is past the fetch handling it has set the username back to ''; and when it
\* ends it has either completed or one of its calls threw; and when it completed
\* it has, in this order, cleared the placeholder, set a generated tag as the
\* username, called setUserProfile exactly once with that tag, and set
\* profile_initialized to 'true'.
C8_MissFallsBackToGeneratedProfile ==
    \A r \in RunIds :
        LET run == runs[r] IN
        runs[r].seedOrigin = "imported" /\ FetchMissed(run)
        => /\ run.pc \in {"delOrigin", "recheck", "setTag", "publish", "setInit"}
                => Index(run, Ev("setUsername", "", "ok")) # {}
           /\ Ended(run) => run.outcome = "completed" \/ EndedByThrow(run)
           /\ run.outcome = "completed"
                => /\ run.tag \in Tags
                   /\ \E i \in Index(run, Ev("setUsername", "", "ok")),
                         j \in Index(run, Ev("setUsername", run.tag, "ok")),
                         k \in Index(run, Ev("setUserProfile", run.tag, "ok")) :
                           /\ i < j /\ j < k
                           /\ \A f \in Calls(run, "fetchProfile") : f < i
                   /\ Cardinality(Calls(run, "setUserProfile")) = 1
                   /\ username = run.tag
                   /\ store[KeyInit] = "true"

C8_Witness ==
    \E r \in RunIds :
        /\ runs[r].seedOrigin = "imported" /\ FetchMissed(runs[r])
        /\ runs[r].outcome = "completed"
        /\ Ev("fetchProfile", "notFound", "") \in Events(runs[r])

HadUsableLocal(run) ==
    /\ run.seedOrigin = "imported"
    /\ \E v \in StoredNameRead(run) : v \notin {NULL, "", Blank, Loading, "throw"}

\* C9: a run for an imported identity that reads a stored portal_username that
\* is non-blank and not 'Loading...' never calls setUsername (no placeholder),
\* makes no network call, takes the stored value as the resolved username,
\* never reads the flag a second time, leaves the username equal to the stored
\* value, and ends either by a call throwing or by completing with
\* profile_initialized 'true'.
C9_ExistingLocalProfileKept ==
    \A r \in RunIds :
        LET run == runs[r] IN
        HadUsableLocal(run)
        => /\ Calls(run, "setUsername") = {}
           /\ NoNetwork(run)
           /\ run.currentUsername \in StoredNameRead(run)
           /\ username = run.currentUsername /\ store[KeyUsername] = run.currentUsername
           /\ Cardinality(Index(run, Ev("getItem", KeyInit, NULL))) <= 1
           /\ Ended(run) => run.outcome = "completed" \/ EndedByThrow(run)
           /\ run.outcome = "completed" => store[KeyInit] = "true"

C9_Witness ==
    \E r \in RunIds :
        /\ HadUsableLocal(runs[r])
        /\ runs[r].outcome = "completed"
        /\ username = "alice"

\* C10: a run whose portal_seed_origin is 'generated' never calls fetchProfile
\* and performs no connectivity check.
C10_GeneratedSkipsNetworkLookup ==
    \A r \in RunIds :
        runs[r].seedOrigin = "generated"
        => /\ Calls(runs[r], "fetchProfile") = {}
           /\ Calls(runs[r], "refreshConnectionStatus") = {}
           /\ runs[r].checks = 0
           /\ runs[r].pc \notin {"getLocal", "setLoading", "waitFirst", "waitLoop", "fetch"}

C10_Witness ==
    \E r \in RunIds :
        /\ runs[r].seedOrigin = "generated"
        /\ runs[r].outcome = "completed"
        /\ Generated(runs[r])

InWait(run) == run.pc \in {"waitFirst", "waitLoop"}

\* C11: within one run the connectivity poll reads the connection summary at
\* most 10 times, two consecutive reads are at least the check interval (1 s)
\* apart, and no further read is made once a read has seen connectedCount > 0.
C11_BoundedWait ==
    /\ [](\A r \in RunIds :
            /\ runs[r].checks <= 10
            /\ InWait(runs[r]) => runs[r].hasRelay = "unset")
    /\ [][\A r \in RunIds :
            ( /\ r <= Len(runs')
              /\ runs[r].checks >= 1
              /\ runs'[r].checks = runs[r].checks + 1 )
            => /\ runs'[r].elapsed - runs[r].elapsed >= CheckInterval
               /\ runs[r].hasRelay = "unset"]_vars

C11_Witness ==
    \E r \in RunIds :
        runs[r].checks = 10 /\ runs[r].pc = "fetch" /\ runs[r].hasRelay = "no"

\* the run left the wait without a throw
WaitEnded(run) == run.hasRelay \in {"yes", "no"}

\* C12: for an imported identity with no usable stored username, once the wait
\* has ended, connected or timed out, the next call of the run is fetchProfile.
C12_FetchAfterWait ==
    \A r \in RunIds :
        WaitEnded(runs[r])
        => /\ runs[r].seedOrigin = "imported"
           /\ \/ runs[r].pc = "fetch" /\ Calls(runs[r], "fetchProfile") = {}
              \/ \E i \in Calls(runs[r], "fetchProfile") :
                    /\ i > 1
                    /\ runs[r].log[i - 1] = Ev("refreshConnectionStatus", "", "ok")

C12_Witness ==
    \E r \in RunIds :
        /\ runs[r].hasRelay = "no"
        /\ Calls(runs[r], "fetchProfile") # {}

\* C13: once an invocation that set the latch has found profile_initialized =
\* 'true' and returned at the guard, the latch of its screen is false.
C13_LatchClearedAtGuard ==
    \A r \in RunIds :
        ( /\ runs[r].outcome = "guard"
          /\ mounted /\ runs[r].mount = gen
          /\ \A q \in RunIds : ~InFlight(runs[q]) )
        => isInitializing = FALSE

\* a firing of the effect whose precondition fails
FailedPrecondition(isInit, publicKey, syncStatus) ==
    ~isInit \/ publicKey = "" \/ syncStatus # "idle" \/ isInitializing

\* C15: a firing of the effect during which isInitialized is false, or publicKey
\* is empty, or syncStatus is not 'idle', or the latch is set, starts no run and
\* leaves SecureStore, the username, the latch and every run as they were.
C15_FailedPreconditionIsNoOp ==
    [][\A isInit \in BOOLEAN, publicKey \in {"", "npub1"}, portalApp \in BOOLEAN,
          syncStatus \in {"idle", "syncing"} :
          ( /\ FailedPrecondition(isInit, publicKey, syncStatus)
            /\ Trigger(isInit, publicKey, portalApp, syncStatus) )
          => UNCHANGED <<store, username, isInitializing, runs, mounted, gen>>]_vars

C15_Witness ==
    /\ lastTrigger = "notIdle"
    /\ runs = << >>
    /\ ~isInitializing
    /\ store[KeyInit] = NULL

\* C16: no rejection of a call made by an invocation leaves initializeProfile.
C16_NoRejectionEscapes ==
    \A r \in RunIds : runs[r].outcome # "rejected"

\* C17: a run that set the placeholder and ended in the catch block without a
\* resolved or generated username leaves a username that is not 'Loading...'.
C17_PlaceholderNeverRemains ==
    \A r \in RunIds :
        ( /\ Ev("setUsername", Loading, "ok") \in Events(runs[r])
          /\ Ended(runs[r]) /\ runs[r].outcome = "failed"
          /\ IsBlank(runs[r].currentUsername) /\ runs[r].tag = "" )
        => username = ""

\* C18: a single run calls fetchProfile at most once and setUserProfile at most
\* once.
C18_BoundedSideEffects ==
    \A r \in RunIds :
        /\ Cardinality(Calls(runs[r], "fetchProfile")) <= 1
        /\ Cardinality(Calls(runs[r], "setUserProfile")) <= 1

C18_Witness ==
    \E r \in RunIds :
        /\ runs[r].outcome = "completed"
        /\ Cardinality(Calls(runs[r], "fetchProfile")) = 1
        /\ Cardinality(Calls(runs[r], "setUserProfile")) = 1

OriginRead(run) ==
    { e.res : e \in { x \in Events(run) : x.op = "getItem" /\ x.arg = KeyOrigin } }

\* C20: a run that reads portal_seed_origin as absent or as a value other than
\* 'generated' and 'imported' calls neither fetchProfile, setUsername nor
\* setUserProfile, generates no tag and makes no second read of the flag, also
\* when the stored username is empty; it ends by completing with
\* profile_initialized 'true' unless one of its calls throws.
C20_UnknownOriginOnlyMarks ==
    \A r \in RunIds :
        LET run == runs[r] IN
        (\E o \in OriginRead(run) : o \notin {"generated", "imported", "throw"})
        => /\ NoNetwork(run)
           /\ Calls(run, "setUsername") = {}
           /\ run.tag = ""
           /\ Cardinality(Calls(run, "getItem") \cap
                          { i \in 1..Len(run.log) : run.log[i].arg = KeyInit }) = 1
           /\ Ended(run) => run.outcome = "completed" \/ EndedByThrow(run)
           /\ run.outcome = "completed" => store[KeyInit] = "true"

C20_Witness ==
    \E r \in RunIds :
        /\ "restored" \in OriginRead(runs[r])
        /\ runs[r].outcome = "completed"
        /\ IsBlank(runs[r].currentUsername)
        /\ username = ""

\* C14: at every moment at most one invocation of initializeProfile is in
\* progress, also when the Home screen is unmounted and mounted again while an
\* earlier invocation is still awaiting.
C14_AtMostOneInFlight ==
    Cardinality({ r \in RunIds : InFlight(runs[r]) }) <= 1

\* the second read of profile_initialized (line 281) returned 'true'
SecondReadTrue(run) ==
    \E i \in 2..Len(run.log) : run.log[i] = Ev("getItem", KeyInit, "true")

\* C19: a run whose second read of profile_initialized returns 'true' ends at
\* that read without a tag, without a call of setUsername or setUserProfile and
\* without an error, and the step that ends it leaves the latch of its screen
\* false.
C19_AbortAfterConcurrentRun ==
    /\ [](\A r \in RunIds :
            SecondReadTrue(runs[r])
            => /\ runs[r].outcome = "aborted"
               /\ ~InFlight(runs[r])
               /\ runs[r].tag = ""
               /\ Calls(runs[r], "setUsername") = {}
               /\ Calls(runs[r], "setUserProfile") = {}
               /\ ~EndedByThrow(runs[r]))
    /\ [][\A r \in RunIds :
            ( /\ r <= Len(runs')
              /\ ~SecondReadTrue(runs[r])
              /\ SecondReadTrue(runs'[r])
              /\ mounted /\ runs[r].mount = gen )
            => isInitializing' = FALSE]_vars

C19_Witness ==
    \E r \in RunIds :
        /\ SecondReadTrue(runs[r])
        /\ mounted /\ runs[r].mount = gen
        /\ ~isInitializing
        /\ store[KeyInit] = "true"

\* a stored username that lines 172-176 reject
Sentinels == {NULL, "", Blank, Loading}

\* C21: in a run for an imported identity, a stored portal_username that is
\* absent, blank or 'Loading...' is not adopted: the next call of the run is
\* setUsername('Loading...'), then the connectivity wait, and the run calls
\* fetchProfile unless one of these calls throws.
C21_SentinelNotAdopted ==
    \A r \in RunIds :
        LET run == runs[r] IN
        \A i \in 1..Len(run.log) :
            ( /\ run.seedOrigin = "imported"
              /\ run.log[i].op = "getItem" /\ run.log[i].arg = KeyUsername
              /\ run.log[i].res \in Sentinels )
            => /\ i = Len(run.log) => run.pc = "setLoading" /\ run.currentUsername = ""
               /\ i < Len(run.log) =>
                      /\ run.log[i + 1].op = "setUsername"
                      /\ run.log[i + 1].arg = Loading
               /\ i + 1 < Len(run.log) => run.log[i + 2].op = "refreshConnectionStatus"
               /\ Ended(run) /\ ~EndedByThrow(run) => Calls(run, "fetchProfile") # {}
               /\ run.hasRelay # "unset" /\ run.pc # "fetch" =>
                      Calls(run, "fetchProfile") # {}

C21_Witness ==
    \E r \in RunIds :
        /\ runs[r].seedOrigin = "imported"
        /\ Ev("getItem", KeyUsername, Loading) \in Events(runs[r])
        /\ Calls(runs[r], "fetchProfile") # {}

\* C22: no connectivity check of a wait completes later than 10 seconds after the
\* wait started.
C22_WaitWithinCeiling ==
    \A r \in RunIds : InWait(runs[r]) \/ runs[r].pc = "fetch" => runs[r].elapsed <= MaxWait

\* C23: setUserProfile is called directly after setUsername(tag) has succeeded,
\* with nip05 tag@getportal.cc, name and displayName equal to the tag and an
\* empty picture; when it throws, the local username and its stored copy are
\* the tag.
C23_TagSetBeforePublish ==
    \A r \in RunIds :
        LET run == runs[r] IN
        \A i \in Calls(run, "setUserProfile") :
            /\ run.tag \in Tags
            /\ i > 1
            /\ run.log[i - 1] = Ev("setUsername", run.tag, "ok")
            /\ run.profile = [nip05 |-> <<run.tag, "@getportal.cc">>, name |-> run.tag,
                              picture |-> "", displayName |-> run.tag]
            /\ run.log[i].res = "throw" =>
                  /\ username = run.tag
                  /\ store[KeyUsername] = run.tag
                  /\ run.outcome = "failed"

C23_Witness ==
    \E r \in RunIds :
        /\ PublishThrew(runs[r])
        /\ Ended(runs[r])
        /\ username = runs[r].tag
        /\ runs[r].profile.name = runs[r].tag

\* the run wrote profile_initialized (line 310)
WroteFlag(run) == Ev("setItem", KeyInit, "true") \in Events(run)

\* C24: over all runs of an installation, overlapping ones included,
\* profile_initialized is written once at most, and once it is 'true' it keeps
\* that value.
C24_FlagWrittenOnce ==
    /\ [](Cardinality({ r \in RunIds : WroteFlag(runs[r]) }) <= 1)
    /\ [][store[KeyInit] = "true" => store'[KeyInit] = "true"]_vars

\* C25: while nothing changes outside the flow, no run starts once a run has
\* ended in the catch block.
C25_NoRunAfterFailure ==
    [][(\E r \in RunIds : runs[r].outcome = "failed")
         => \A q \in 1..Len(runs') : ~InFlight(runs'[q])]_vars

\* C27: on an installation whose seed was generated, profile_initialized =
\* 'true' implies a local username that is not empty.
C27_CompletionImpliesName ==
    store[KeyInit] = "true" => username # ""

\* position of an event in the trace of the reset handler, 0 when absent
TraceIndex(ev) ==
    IF \E i \in 1..Len(reset.trace) : reset.trace[i] = ev
      THEN CHOOSE i \in 1..Len(reset.trace) : reset.trace[i] = ev
      ELSE 0

ResetSteps ==
    <<"setUsername", "setAvatarUri", "deleteMnemonic", "resetDatabase", "resetOnboarding">>

\* C26: the steps of 'Clear Data' take effect in the order clear username, clear
\* avatar, delete mnemonic, reset database, reset onboarding; the deletion of
\* the mnemonic has completed before resetDatabase is called; after a step has
\* thrown no later step is executed.
C26_ResetInOrder ==
    /\ \A i, j \in 1..Len(ResetSteps) :
          i < j /\ TraceIndex(ResetSteps[j]) > 0
          => /\ TraceIndex(ResetSteps[i]) > 0
             /\ TraceIndex(ResetSteps[i]) < TraceIndex(ResetSteps[j])
    /\ TraceIndex("resetDatabase") > 0
          => /\ TraceIndex("deleteMnemonic.done") > 0
             /\ TraceIndex("deleteMnemonic.done") < TraceIndex("resetDatabase")
    /\ \A i \in 1..Len(reset.trace) :
          reset.trace[i] \in {"setUsername.throw", "setAvatarUri.throw",
                              "deleteMnemonic.throw", "resetDatabase.throw",
                              "resetOnboarding.throw"}
          => \A j \in (i + 1)..Len(reset.trace) : reset.trace[j] \notin
                 {"setUsername", "setAvatarUri", "deleteMnemonic", "resetDatabase",
                  "resetOnboarding"}

\* C28: once the fetch for the id requested last has resolved with a record, the
\* screen has loading = false, error = null and activity = that record.
C28_LatestRequestShown ==
    detail.latest = "record"
    => /\ detail.loading = FALSE
       /\ detail.error = NULL
       /\ detail.activity = detail.id

\* a step in which the effect of AuthenticatedAppContent runs
GateChecks == gate.effectPending /\ ~gate'.effectPending

\* C29: the gate does not navigate while the onboarding state or the mnemonic
\* state is loading; with both loaded it redirects to '/onboarding' exactly when
\* onboarding is not complete or no mnemonic is present.
C29_AuthenticationGate ==
    [][GateChecks =>
         /\ (gate.onboardingLoading \/ gate.mnemonicLoading)
               => gate'.route = gate.route /\ gate'.lastCheck = "waiting"
         /\ ~(gate.onboardingLoading \/ gate.mnemonicLoading)
               => ( (gate'.lastCheck = "redirect" /\ gate'.route = "/onboarding")
                    <=> (~gate.isOnboardingComplete
                         \/ gate.mnemonic = NULL \/ gate.mnemonic = "") )
         /\ gate'.lastCheck # "redirect" => gate'.route = gate.route]_vars

C29_Witness ==
    /\ gate.lastCheck = "redirect"
    /\ ~gate.effectPending
    /\ ~gate.onboardingLoading /\ ~gate.mnemonicLoading
    /\ gate.isOnboardingComplete
    /\ gate.mnemonic = NULL
    /\ gate.route = "/onboarding"

\* C30: once a call of markWelcomeAsViewed has completed, isFirstLaunch of the
\* mounted Home screen is not true, and the stored flag stays 'true'.
C30_WelcomeDismissedForGood ==
    /\ welcome.marked => welcome.stored = "true"
    /\ welcome.marked /\ mounted => welcome.isFirstLaunch # "true"

====
